---- MODULE Spec2Model ----
(***************************************************************************)
(* mdbook-spec/src/std_links.rs: rewriting of standard-library links in a  *)
(* chapter.  A str/String is a sequence of one-character strings (all text *)
(* here is ASCII, so a byte offset n is the sequence index n + 1).  A      *)
(* position p names the next character to read; a match "ends at" the      *)
(* position after its last character.                                      *)
(***************************************************************************)
EXTENDS Integers, Sequences, FiniteSets, TLC

VARIABLES
    pc,             \* position inside std_links and its callees, or how the process ended
    SPEC_RELATIVE,  \* the environment variable read by relative_url
    chapter,        \* the &Chapter argument: name, content, path
    links,          \* std_links: let links
    tmp,            \* the TempDir: "none", "exists" or "removed"
    a_rs,           \* contents of <tmp>/a.rs, None until written
    index_html,     \* <tmp>/doc/a/index.html: None, or Some(the hrefs of its <li><a> anchors)
    urls,           \* std_links: let urls
    output,         \* std_links: let mut output
    n,              \* how many (link, url) pairs the for loop has consumed
    returned,       \* the String handed back to the caller, None until then
    stderr,         \* the diagnostics printed by eprintln!
    rustdoc_runs    \* how many times Command::new("rustdoc") ran for this chapter

vars == <<pc, SPEC_RELATIVE, chapter, links, tmp, a_rs, index_html, urls, output, n,
          returned, stderr, rustdoc_runs>>

-----------------------------------------------------------------------------
(* Bounds of the model *)

\* a chapter's content is at most this many fragments long
MaxFrags == 3
\* the generated index page holds at most this many anchors
MaxAnchors == 2
\* a chapter's path has at most this many components
MaxDepth == 2

-----------------------------------------------------------------------------
(* Text *)

\* the character 0x60, which a string of this language cannot hold
BACKTICK == "backtick"

\* The printable ASCII characters, in byte order from 0x20 to 0x7E.
Printable ==
    <<" ", "!", "\"", "#", "$", "%", "&", "'", "(", ")", "*", "+", ",", "-", ".", "/", "0", "1",
      "2", "3", "4", "5", "6", "7", "8", "9", ":", ";", "<", "=", ">", "?", "@", "A", "B", "C",
      "D", "E", "F", "G", "H", "I", "J", "K", "L", "M", "N", "O", "P", "Q", "R", "S", "T", "U",
      "V", "W", "X", "Y", "Z", "[", "\\", "]", "^", "_", BACKTICK, "a", "b", "c", "d", "e", "f", "g",
      "h", "i", "j", "k", "l", "m", "n", "o", "p", "q", "r", "s", "t", "u", "v", "w", "x", "y",
      "z", "{", "|", "}", "~">>

Char == {Printable[i] : i \in DOMAIN Printable} \cup {"\n"}

\* the byte value of a character
Byte == [c \in Char |-> IF c = "\n" THEN 10
                        ELSE 31 + (CHOOSE i \in DOMAIN Printable : Printable[i] = c)]

None == <<>>
Some(x) == <<x>>

Max(S) == CHOOSE x \in S : \A y \in S : y <= x
Min(S) == CHOOSE x \in S : \A y \in S : x <= y

RECURSIVE Concat(_)
Concat(ss) == IF ss = <<>> THEN <<>> ELSE Head(ss) \o Concat(Tail(ss))

\* Ord for str: lexicographic on bytes; -1, 0 or 1.  The first index at which
\* the two differ decides; a proper prefix sorts first.
cmp_str(a, b) ==
    LET differ == {k \in 1..Min({Len(a), Len(b)}) : a[k] # b[k]}
    IN  IF differ # {}
        THEN (IF Byte[a[Min(differ)]] < Byte[b[Min(differ)]] THEN -1 ELSE 1)
        ELSE IF Len(a) < Len(b) THEN -1
        ELSE IF Len(a) > Len(b) THEN 1
        ELSE 0

\* Ord for Option<&str>: None sorts before every Some
cmp_option(x, y) ==
    IF x = None THEN (IF y = None THEN 0 ELSE -1)
    ELSE IF y = None THEN 1
    ELSE cmp_str(x[1], y[1])

\* Ord for the tuple (&str, Option<&str>)
cmp_link(l, m) ==
    LET c == cmp_str(l.link, m.link)
    IN  IF c # 0 THEN c ELSE cmp_option(l.dest, m.dest)

\* Vec::sort (stable): insertion keeps equal elements in their order
RECURSIVE insert(_, _)
insert(x, v) ==
    IF v = <<>> THEN <<x>>
    ELSE IF cmp_link(x, Head(v)) < 0 THEN <<x>> \o v
    ELSE <<Head(v)>> \o insert(x, Tail(v))

\* sort, were the Vec left in the order of the text
sort_left_as_found(v) == v

RECURSIVE sort(_)
sort(v) == IF v = <<>> THEN <<>> ELSE insert(v[Len(v)], sort(SubSeq(v, 1, Len(v) - 1)))

\* dedup, were the repeated elements kept
dedup_keeps_repeats(v) == v

\* Vec::dedup: drops each element equal to the one before it
RECURSIVE dedup(_)
dedup(v) ==
    IF Len(v) <= 1 THEN v
    ELSE IF v[1] = v[2] THEN dedup(Tail(v))
    ELSE <<v[1]>> \o dedup(Tail(v))

-----------------------------------------------------------------------------
(* Regex matching *)

\* the literal lit stands at position i of s
lit_at(s, i, lit) ==
    /\ i + Len(lit) - 1 <= Len(s)
    /\ \A k \in 1..Len(lit) : s[i + k - 1] = lit[k]

\* like lit_at, for a pattern whose "." is the regex any-character-but-newline
pat_at(s, i, pat) ==
    /\ i + Len(pat) - 1 <= Len(s)
    /\ \A k \in 1..Len(pat) :
          IF pat[k] = "." THEN s[i + k - 1] # "\n" ELSE s[i + k - 1] = pat[k]

\* the position after the longest run of characters of class starting at i
run_end(s, i, class) ==
    IF i > Len(s) THEN i
    ELSE Min({j \in i..Len(s) : s[j] \notin class} \cup {Len(s) + 1})

\* the first position from i on at which lit stands, Len(s) + 1 when none
first_at(s, i, lit) ==
    Min({j \in i..Len(s) : lit_at(s, j, lit)} \cup {Len(s) + 1})

\* the last position in lo..hi at which lit stands, 0 when there is none
last_at(s, lo, hi, lit) ==
    LET at == {e \in lo..hi : lit_at(s, e, lit)}
    IN  IF at = {} THEN 0 ELSE Max(at)

\* backtracking: the first attempt if it matched (is not 0), else the second
or_else(first, second) == IF first # 0 THEN first ELSE second

LOWER == {c \in Char : Byte[c] \in 97..122}
UPPER == {c \in Char : Byte[c] \in 65..90}
DIGIT == {c \in Char : Byte[c] \in 48..57}
NOT_BACKTICK == Char \ {BACKTICK}
NOT_BRACKET == Char \ {"]"}
NOT_NEWLINE == Char \ {"\n"}

\* [A-Za-z0-9_!:<>{}()\[\]]
PATH_CLASS == UPPER \cup LOWER \cup DIGIT \cup
              {"_", "!", ":", "<", ">", "{", "}", "(", ")", "[", "]"}

\* std|core|alloc|proc_macro|test
ROOTS == << <<"s", "t", "d">>, <<"c", "o", "r", "e">>, <<"a", "l", "l", "o", "c">>,
            <<"p", "r", "o", "c", "_", "m", "a", "c", "r", "o">>, <<"t", "e", "s", "t">> >>

\* (?: ::[A-Za-z0-9_!:<>{}()\[\]]+ )? at q, with the rest of the regex, the
\* literal follow, after it.  The greedy repetition runs as far as it can and
\* gives characters back until follow matches; the group is skipped when no
\* length works.  The position where the group ends, 0: no match.
path_end(s, q, follow) ==
    or_else(IF lit_at(s, q, <<":", ":">>)
            THEN last_at(s, q + 3, run_end(s, q + 2, PATH_CLASS), follow)
            ELSE 0,
            IF lit_at(s, q, follow) THEN q ELSE 0)

\* (?: std|core|alloc|proc_macro|test ) and the optional path after it: the
\* first alternative, in order, with which the rest matches
root_end(s, p, follow) ==
    LET ok == {k \in DOMAIN ROOTS :
                  lit_at(s, p, ROOTS[k]) /\ path_end(s, p + Len(ROOTS[k]), follow) # 0}
    IN  IF ok = {} THEN 0 ELSE path_end(s, p + Len(ROOTS[Min(ok)]), follow)

\* (?: [a-z]+@ )? taken, its letters running up to r
prefixed(s, p, r, follow) ==
    IF r > p /\ lit_at(s, r, <<"@">>) THEN root_end(s, r + 1, follow) ELSE 0

\* STD_LINK at p with the literal follow after it: the position where STD_LINK
\* ends, 0 when there is no match.  The optional prefix is tried first.
STD_LINK(s, p, follow) ==
    or_else(prefixed(s, p, run_end(s, p, LOWER), follow), root_end(s, p, follow))

\* the first alternative of STD_LINK_RE from the position t after [^`]+ on:
\* `\] \( (STD_LINK) \)
with_dest(s, i, t) ==
    IF t > i + 2 /\ lit_at(s, t, <<BACKTICK, "]", "(">>)
    THEN STD_LINK(s, t + 3, <<")">>)
    ELSE 0

\* the captures of STD_LINK_RE at i: t is where [^`]+ ends, e1 where the
\* STD_LINK of the first alternative ends, e2 where that of the second ends
captures(s, i, t, e1, e2) ==
    IF e1 # 0
    THEN Some([start |-> i, end |-> e1 + 1, all |-> SubSeq(s, i, e1),
               g1 |-> Some(SubSeq(s, i, t + 1)),
               g2 |-> Some(SubSeq(s, t + 3, e1 - 1)), g3 |-> None])
    ELSE IF e2 # 0
    THEN Some([start |-> i, end |-> e2 + 2, all |-> SubSeq(s, i, e2 + 1),
               g1 |-> None, g2 |-> None, g3 |-> Some(SubSeq(s, i, e2 + 1))])
    ELSE None

\* STD_LINK_RE at position i: None, or Some of the match with its start, its
\* end and its capture groups 1, 2, 3 (each an Option).  The first alternative
\* has priority.
STD_LINK_RE(s, i) ==
    IF ~lit_at(s, i, <<"[", BACKTICK>>) THEN None
    ELSE captures(s, i, run_end(s, i + 2, NOT_BACKTICK),
                  with_dest(s, i, run_end(s, i + 2, NOT_BACKTICK)),
                  STD_LINK(s, i + 2, <<BACKTICK, "]">>))

\* STD_LINK_RE.captures_iter(s), from position i on: the non-overlapping
\* matches, left to right.  A match starts with "[" and a backtick, so the
\* search goes from one such place to the next.
RECURSIVE STD_LINK_RE_captures_iter(_, _)
RECURSIVE STD_LINK_RE_captures_next(_, _, _)
STD_LINK_RE_captures_iter(s, i) ==
    IF i > Len(s) THEN <<>>
    ELSE STD_LINK_RE_captures_next(s, first_at(s, i, <<"[", BACKTICK>>),
                                   STD_LINK_RE(s, first_at(s, i, <<"[", BACKTICK>>)))

STD_LINK_RE_captures_next(s, i, m) ==
    IF m = None THEN STD_LINK_RE_captures_iter(s, i + 1)
    ELSE m \o STD_LINK_RE_captures_iter(s, m[1].end)

\* the captures of LINK_DEF_RE at i: t is where [^]]+ ends, u where the
\* blanks end, v where the line ends
def_captures(s, i, t, u, v) ==
    [end |-> v, label |-> SubSeq(s, i, t), dest |-> SubSeq(s, u, v - 1)]

\* ": *(?<dest>.*)" from the position t of the closing bracket on
def_tail(s, i, t, u) == def_captures(s, i, t, u, run_end(s, u, NOT_NEWLINE))

\* "[^]]+\]:" up to the position t where the run ends
def_label(s, i, t) ==
    IF t > i + 1 /\ lit_at(s, t, <<"]", ":">>)
    THEN Some(def_tail(s, i, t, run_end(s, t + 2, {" "})))
    ELSE None

\* (?m)^ followed by "[" at position i
line_start_bracket(s, i) ==
    (i = 1 \/ s[i - 1] = "\n") /\ lit_at(s, i, <<"[">>)

\* LINK_DEF_RE at position i: (?m)^(?<label>\[[^]]+\]): *(?<dest>.*)
LINK_DEF_RE(s, i) ==
    IF line_start_bracket(s, i)
    THEN def_label(s, i, run_end(s, i + 1, NOT_BRACKET))
    ELSE None

\* the first position from i on at which a line starts with "["
first_line_start_bracket(s, i) ==
    Min({j \in i..Len(s) : line_start_bracket(s, j)} \cup {Len(s) + 1})

\* LINK_DEF_RE.captures_iter(s), from position i on; the search goes from one
\* line that starts with "[" to the next
RECURSIVE LINK_DEF_RE_captures_iter(_, _)
RECURSIVE LINK_DEF_RE_captures_next(_, _, _)
LINK_DEF_RE_captures_iter(s, i) ==
    IF i > Len(s) THEN <<>>
    ELSE LINK_DEF_RE_captures_next(s, first_line_start_bracket(s, i),
                                   LINK_DEF_RE(s, first_line_start_bracket(s, i)))

LINK_DEF_RE_captures_next(s, i, m) ==
    IF m = None THEN LINK_DEF_RE_captures_iter(s, i + 1)
    ELSE m \o LINK_DEF_RE_captures_iter(s, m[1].end)

-----------------------------------------------------------------------------
(* collect_markdown_links *)

\* the closure of the map over captures_iter: one (link, dest) per match
capture_to_link(cap) ==
    IF cap.g3 # None THEN [link |-> cap.g3[1], dest |-> None]
    ELSE [link |-> cap.g1[1], dest |-> Some(cap.g2[1])]

map_links(caps) == [k \in DOMAIN caps |-> capture_to_link(caps[k])]

labels_of(caps) == {caps[k].label : k \in DOMAIN caps}

\* the labels of the link definitions the content already holds
existing_labels(content) == labels_of(LINK_DEF_RE_captures_iter(content, 1))

\* the label the retain closure looks up for a link
retain_label(l) ==
    IF l.dest = None THEN l.link
    ELSE <<"[", BACKTICK>> \o l.dest[1] \o <<BACKTICK, "]">>

\* links.retain(..) against the labels have
retain(v, have) == SelectSeq(v, LAMBDA l : retain_label(l) \notin have)


-----------------------------------------------------------------------------
(* run_rustdoc *)

\* "#![deny(rustdoc::broken_intra_doc_links)]\n#![allow(rustdoc::redundant_explicit_links)]\n"
SrcHeader ==
    <<"#", "!", "[", "d", "e", "n", "y", "(", "r", "u", "s", "t", "d", "o", "c", ":", ":", "b",
      "r", "o", "k", "e", "n", "_", "i", "n", "t", "r", "a", "_", "d", "o", "c", "_", "l", "i",
      "n", "k", "s", ")", "]", "\n", "#", "!", "[", "a", "l", "l", "o", "w", "(", "r", "u", "s",
      "t", "d", "o", "c", ":", ":", "r", "e", "d", "u", "n", "d", "a", "n", "t", "_", "e", "x",
      "p", "l", "i", "c", "i", "t", "_", "l", "i", "n", "k", "s", ")", "]", "\n">>

\* "extern crate alloc;\nextern crate proc_macro;\nextern crate test;\n\n"
SrcTrailer ==
    <<"e", "x", "t", "e", "r", "n", " ", "c", "r", "a", "t", "e", " ", "a", "l", "l", "o", "c",
      ";", "\n", "e", "x", "t", "e", "r", "n", " ", "c", "r", "a", "t", "e", " ", "p", "r", "o",
      "c", "_", "m", "a", "c", "r", "o", ";", "\n", "e", "x", "t", "e", "r", "n", " ", "c", "r",
      "a", "t", "e", " ", "t", "e", "s", "t", ";", "\n", "\n">>

\* one doc-comment bullet of a.rs
src_line(l) ==
    <<"/", "/", "!", " ", "-", " ">> \o l.link
      \o (IF l.dest # None THEN <<"(">> \o l.dest[1] \o <<")">> ELSE <<>>)
      \o <<"\n">>

\* the source file written to <tmp>/a.rs
rustdoc_src(ls) ==
    SrcHeader \o Concat([k \in DOMAIN ls |-> src_line(ls[k])]) \o SrcTrailer

-----------------------------------------------------------------------------
(* the generated page and its URLs *)

\* "https://doc.rust-lang.org/"
DocSite ==
    <<"h", "t", "t", "p", "s", ":", "/", "/", "d", "o", "c", ".", "r", "u", "s", "t", "-", "l",
      "a", "n", "g", ".", "o", "r", "g", "/">>

\* STD_LINK_EXTRACT_RE over the page, given as the hrefs of its <li><a ...>
\* anchors in order of appearance: capture 1 of every anchor whose href
\* matches https://doc.rust-lang.org/[^"]+
STD_LINK_EXTRACT_RE_captures_iter(hrefs) ==
    SelectSeq(hrefs, LAMBDA h : pat_at(h, 1, DocSite) /\ Len(h) > Len(DocSite))

\* nightly|beta|stable|dev
CHANNELS == << <<"n", "i", "g", "h", "t", "l", "y">>, <<"b", "e", "t", "a">>,
               <<"s", "t", "a", "b", "l", "e">>, <<"d", "e", "v">> >>

\* DOC_URL: every position at which a match of the regex on url can end
DOC_URL(url) ==
    LET q     == Len(DocSite) + 1
        named == {q + Len(CHANNELS[k]) : k \in {j \in DOMAIN CHANNELS : lit_at(url, q, CHANNELS[j])}}
        a     == run_end(url, q + 2, DIGIT)
        b     == run_end(url, a + 1, DIGIT)
        dotted == IF /\ lit_at(url, q, <<"1", ".">>)
                     /\ a > q + 2
                     /\ lit_at(url, a, <<".">>)
                  THEN (a + 2)..b ELSE {}
    IN  IF pat_at(url, 1, DocSite) THEN named \cup dotted ELSE {}

\* Regex::shortest_match: the byte offset at which the earliest of the
\* matches ends, for a regex whose matches end at the positions ends
shortest_match(ends) ==
    IF ends = {} THEN None ELSE Some(Min(ends) - 1)

\* vec![".."; num_dots].join("/")
RECURSIVE dots(_)
dots(num_dots) ==
    IF num_dots = 0 THEN <<>>
    ELSE IF num_dots = 1 THEN <<".", ".">>
    ELSE <<".", ".", "/">> \o dots(num_dots - 1)

\* strip_prefix, were only the site cut off and the channel left in the path
strip_prefix_keeps_channel(url, ch, matched) ==
    IF matched = None
    THEN [exit |-> TRUE, url |-> url]
    ELSE [exit |-> FALSE,
          url |-> dots(Len(ch.path)) \o SubSeq(url, Len(DocSite), Len(url))]

\* the let-else on the match and the lines after it
strip_prefix(url, ch, matched) ==
    IF matched = None
    THEN [exit |-> TRUE, url |-> url]
    ELSE LET url_start == matched[1]
             url_path  == SubSeq(url, url_start + 1, Len(url))
             num_dots  == Len(ch.path)
         IN  [exit |-> FALSE, url |-> dots(num_dots) \o url_path]

\* relative_url: [exit |-> TRUE] when it ends the process, else the String
relative_url(url, ch, env) ==
    IF env # Some(<<"0">>)
    THEN strip_prefix(url, ch, shortest_match(DOC_URL(url)))
    ELSE [exit |-> FALSE, url |-> url]

-----------------------------------------------------------------------------
(* std_links: the rewriting *)

\* the replace_all closure: what a match is replaced with
replacement(cap) ==
    IF cap.g2 # None
    THEN cap.g1[1] \o <<"[">> \o cap.g2[1] \o <<"]">>
    ELSE cap.all

\* Regex::replace_all over the matches caps of s, from position i on: the
\* text between the matches is copied, each match gives way to its replacement
RECURSIVE replace_matches(_, _, _)
replace_matches(s, i, caps) ==
    IF caps = <<>> THEN SubSeq(s, i, Len(s))
    ELSE SubSeq(s, i, caps[1].start - 1) \o replacement(caps[1])
           \o replace_matches(s, caps[1].end, Tail(caps))

\* STD_LINK_RE.replace_all(s, closure)
replace_all(s) == replace_matches(s, 1, STD_LINK_RE_captures_iter(s, 1))

\* the line the loop writes for one (link, dest) and its url
definition_line(l, url) ==
    IF l.dest # None
    THEN <<"[">> \o l.dest[1] \o <<"]", ":", " ">> \o url \o <<"\n">>
    ELSE l.link \o <<":", " ">> \o url \o <<"\n">>

-----------------------------------------------------------------------------
(* Inputs *)

\* "Use [`Option`](std::option::Option) for this."
ExampleLine ==
    <<"U", "s", "e", " ", "[", BACKTICK, "O", "p", "t", "i", "o", "n", BACKTICK, "]", "(", "s", "t", "d",
      ":", ":", "o", "p", "t", "i", "o", "n", ":", ":", "O", "p", "t", "i", "o", "n", ")", " ",
      "f", "o", "r", " ", "t", "h", "i", "s", ".">>

\* "[`std::fmt`]"
FmtShorthand ==
    <<"[", BACKTICK, "s", "t", "d", ":", ":", "f", "m", "t", BACKTICK, "]">>

\* " or [`Vec`] "
PlainSpan ==
    <<" ", "o", "r", " ", "[", BACKTICK, "V", "e", "c", BACKTICK, "]", " ">>

\* "\n[std::option::Option]: a.html"
OptionTargetDef ==
    <<"\n", "[", "s", "t", "d", ":", ":", "o", "p", "t", "i", "o", "n", ":", ":", "O", "p", "t",
      "i", "o", "n", "]", ":", " ", "a", ".", "h", "t", "m", "l">>

\* "\n[`std::option::Option`]: a.html"
OptionTickedDef ==
    <<"\n", "[", BACKTICK, "s", "t", "d", ":", ":", "o", "p", "t", "i", "o", "n", ":", ":", "O", "p",
      "t", "i", "o", "n", BACKTICK, "]", ":", " ", "a", ".", "h", "t", "m", "l">>

\* "\n[`std::fmt`]: b.html"
FmtDef ==
    <<"\n", "[", BACKTICK, "s", "t", "d", ":", ":", "f", "m", "t", BACKTICK, "]", ":", " ", "b", ".", "h",
      "t", "m", "l">>

\* what an author may end a chapter with: text with a reference to something
\* outside the standard library, and two link definitions
AuthorTail == PlainSpan \o OptionTargetDef \o FmtDef

Fragments == {ExampleLine, FmtShorthand, OptionTickedDef, AuthorTail}

\* the chapter contents: up to MaxFrags fragments, in any order
Contents ==
    UNION {{Concat(fs) : fs \in [1..k -> Fragments]} : k \in 0..MaxFrags}

\* a chapter path of d components
path_of(d) == [k \in 1..d |-> IF k = d THEN "chapter.md" ELSE "dir"]

Paths == {path_of(d) : d \in 1..MaxDepth}

\* "https://doc.rust-lang.org/stable/std/option/enum.Option.html"
StableOptionUrl ==
    <<"h", "t", "t", "p", "s", ":", "/", "/", "d", "o", "c", ".", "r", "u", "s", "t", "-", "l",
      "a", "n", "g", ".", "o", "r", "g", "/", "s", "t", "a", "b", "l", "e", "/", "s", "t", "d",
      "/", "o", "p", "t", "i", "o", "n", "/", "e", "n", "u", "m", ".", "O", "p", "t", "i", "o",
      "n", ".", "h", "t", "m", "l">>

\* "https://doc.rust-lang.org/1.75.10/std/fmt/index.html"
PatchFmtUrl ==
    <<"h", "t", "t", "p", "s", ":", "/", "/", "d", "o", "c", ".", "r", "u", "s", "t", "-", "l",
      "a", "n", "g", ".", "o", "r", "g", "/", "1", ".", "7", "5", ".", "1", "0", "/", "s", "t",
      "d", "/", "f", "m", "t", "/", "i", "n", "d", "e", "x", ".", "h", "t", "m", "l">>

\* "https://doc.rust-lang.org/book/index.html"
BookUrl ==
    <<"h", "t", "t", "p", "s", ":", "/", "/", "d", "o", "c", ".", "r", "u", "s", "t", "-", "l",
      "a", "n", "g", ".", "o", "r", "g", "/", "b", "o", "o", "k", "/", "i", "n", "d", "e", "x",
      ".", "h", "t", "m", "l">>

\* "https://docs.rs/std/index.html"
ForeignUrl ==
    <<"h", "t", "t", "p", "s", ":", "/", "/", "d", "o", "c", "s", ".", "r", "s", "/", "s", "t",
      "d", "/", "i", "n", "d", "e", "x", ".", "h", "t", "m", "l">>

\* the hrefs an anchor of the generated page may carry
Hrefs == {StableOptionUrl, PatchFmtUrl, BookUrl, ForeignUrl}

\* the pages rustdoc may generate
Pages == UNION {[1..k -> Hrefs] : k \in 0..MaxAnchors}

\* the values of the environment variable: unset, "0", "1"
EnvValues == {None, Some(<<"0">>)}

-----------------------------------------------------------------------------
(* The process *)

Init ==
    /\ pc = "idle"
    /\ SPEC_RELATIVE \in EnvValues
    /\ chapter = None
    /\ links = <<>>
    /\ tmp = "none"
    /\ a_rs = None
    /\ index_html = None
    /\ urls = <<>>
    /\ output = <<>>
    /\ n = 0
    /\ returned = None
    /\ stderr = <<>>
    /\ rustdoc_runs = 0

\* the Chapter the caller passes
Chapter(content, path) ==
    [name |-> "chapter", source_path |-> path, path |-> path, content |-> content]

\* the caller hands a chapter to std_links, which calls collect_markdown_links
std_links_call(content, path) ==
    /\ pc = "idle"
    /\ chapter' = Some(Chapter(content, path))
    /\ pc' = "captures"
    /\ UNCHANGED <<SPEC_RELATIVE, links, tmp, a_rs, index_html, urls, output, n, returned,
                   stderr, rustdoc_runs>>

\* collect_markdown_links: the matches are mapped and collected; an empty Vec
\* is returned at once
collect_captures ==
    /\ pc = "captures"
    /\ links' = map_links(STD_LINK_RE_captures_iter(chapter[1].content, 1))
    /\ pc' = IF links' = <<>> THEN "collected" ELSE "sort"
    /\ UNCHANGED <<SPEC_RELATIVE, chapter, tmp, a_rs, index_html, urls, output, n, returned,
                   stderr, rustdoc_runs>>

\* collect_markdown_links: links.sort(); links.dedup();
collect_sort_dedup ==
    /\ pc = "sort"
    /\ links' = dedup(sort(links))
    /\ pc' = "retain"
    /\ UNCHANGED <<SPEC_RELATIVE, chapter, tmp, a_rs, index_html, urls, output, n, returned,
                   stderr, rustdoc_runs>>

\* collect_markdown_links: the links that have a definition are dropped
collect_retain ==
    /\ pc = "retain"
    /\ links' = retain(links, existing_labels(chapter[1].content))
    /\ pc' = "collected"
    /\ UNCHANGED <<SPEC_RELATIVE, chapter, tmp, a_rs, index_html, urls, output, n, returned,
                   stderr, rustdoc_runs>>

\* std_links_is_empty, were the early return missing
std_links_is_empty_falls_through ==
    /\ pc = "collected"
    /\ pc' = "tempdir"
    /\ UNCHANGED <<SPEC_RELATIVE, chapter, links, tmp, a_rs, index_html, urls, output, n,
                   returned, stderr, rustdoc_runs>>

\* std_links: with no links the content is returned as it is
std_links_is_empty ==
    /\ pc = "collected"
    /\ IF links = <<>>
       THEN /\ returned' = Some(chapter[1].content)
            /\ pc' = "returned"
       ELSE /\ UNCHANGED returned
            /\ pc' = "tempdir"
    /\ UNCHANGED <<SPEC_RELATIVE, chapter, links, tmp, a_rs, index_html, urls, output, n,
                   stderr, rustdoc_runs>>

\* TempDir::with_prefix("mdbook-spec-")
TempDir_with_prefix ==
    /\ pc = "tempdir"
    /\ tmp' = "exists"
    /\ pc' = "run_rustdoc"
    /\ UNCHANGED <<SPEC_RELATIVE, chapter, links, a_rs, index_html, urls, output, n,
                   returned, stderr, rustdoc_runs>>

\* run_rustdoc, were a failed run reported and then ignored
run_rustdoc_goes_on(success, page) ==
    /\ pc = "run_rustdoc"
    /\ a_rs' = Some(rustdoc_src(links))
    /\ rustdoc_runs' = rustdoc_runs + 1
    /\ index_html' = IF success THEN page ELSE None
    /\ stderr' = IF success THEN stderr
                 ELSE Append(stderr, [error |-> "failed to extract std links",
                                      chapter |-> chapter[1].name,
                                      source_path |-> chapter[1].source_path])
    /\ pc' = "extract"
    /\ UNCHANGED <<SPEC_RELATIVE, chapter, links, tmp, urls, output, n, returned>>

\* run_rustdoc: writes a.rs and runs rustdoc, which fails or succeeds; a
\* successful run leaves the page page (None: no index.html)
run_rustdoc(success, page) ==
    /\ pc = "run_rustdoc"
    /\ a_rs' = Some(rustdoc_src(links))
    /\ rustdoc_runs' = rustdoc_runs + 1
    /\ IF success
       THEN /\ index_html' = page
            /\ pc' = "extract"
            /\ UNCHANGED stderr
       ELSE /\ index_html' = None
            /\ stderr' = Append(stderr, [error |-> "failed to extract std links",
                                         chapter |-> chapter[1].name,
                                         source_path |-> chapter[1].source_path])
            /\ pc' = "exited"
    /\ UNCHANGED <<SPEC_RELATIVE, chapter, links, tmp, urls, output, n, returned>>

\* extract_urls, were the counts not compared
extract_urls_unchecked ==
    /\ pc = "extract"
    /\ IF index_html = None
       THEN /\ pc' = "panicked"
            /\ tmp' = "removed"
            /\ UNCHANGED urls
       ELSE /\ urls' = STD_LINK_EXTRACT_RE_captures_iter(index_html[1])
            /\ pc' = "replace"
            /\ UNCHANGED tmp
    /\ UNCHANGED <<SPEC_RELATIVE, chapter, links, a_rs, index_html, output, n, returned,
                   stderr, rustdoc_runs>>

\* reading index.html, extracting the URLs and comparing the counts
extract_urls ==
    /\ pc = "extract"
    /\ IF index_html = None
       THEN \* expect("index.html generated") panics; unwinding drops tmp
            /\ pc' = "panicked"
            /\ tmp' = "removed"
            /\ UNCHANGED <<urls, stderr>>
       ELSE LET found == STD_LINK_EXTRACT_RE_captures_iter(index_html[1])
            IN  /\ urls' = found
                /\ UNCHANGED tmp
                /\ IF Len(found) # Len(links)
                   THEN /\ stderr' = Append(stderr,
                               [error |-> "expected rustdoc to generate links",
                                expected |-> Len(links), found |-> Len(found),
                                chapter |-> chapter[1].name,
                                source_path |-> chapter[1].source_path])
                        /\ pc' = "exited"
                   ELSE /\ UNCHANGED stderr
                        /\ pc' = "replace"
    /\ UNCHANGED <<SPEC_RELATIVE, chapter, links, a_rs, index_html, output, n, returned,
                   rustdoc_runs>>

\* replace_all over the content, and the newline written after it
replace_links ==
    /\ pc = "replace"
    /\ output' = replace_all(chapter[1].content) \o <<"\n">>
    /\ n' = 0
    /\ pc' = "append"
    /\ UNCHANGED <<SPEC_RELATIVE, chapter, links, tmp, a_rs, index_html, urls, returned,
                   stderr, rustdoc_runs>>

\* the body of the loop, r being what relative_url did
write_definition(r) ==
    IF r.exit
    THEN /\ stderr' = Append(stderr, [error |-> "expected rustdoc URL to start with",
                                      url |-> r.url])
         /\ pc' = "exited"
         /\ UNCHANGED <<output, n>>
    ELSE /\ output' = output \o definition_line(links[n + 1], r.url)
         /\ n' = n + 1
         /\ UNCHANGED <<stderr, pc>>

\* one turn of the loop over links.iter().zip(urls)
append_definition ==
    /\ pc = "append"
    /\ n < Len(links) /\ n < Len(urls)
    /\ write_definition(relative_url(urls[n + 1], chapter[1], SPEC_RELATIVE))
    /\ UNCHANGED <<SPEC_RELATIVE, chapter, links, tmp, a_rs, index_html, urls, returned,
                   rustdoc_runs>>

\* the loop is over: output is returned and tmp goes out of scope
std_links_return ==
    /\ pc = "append"
    /\ ~(n < Len(links) /\ n < Len(urls))
    /\ returned' = Some(output)
    /\ tmp' = "removed"
    /\ pc' = "returned"
    /\ UNCHANGED <<SPEC_RELATIVE, chapter, links, a_rs, index_html, urls, output, n,
                   stderr, rustdoc_runs>>

\* the caller takes the returned content and goes on to its next chapter
next_chapter ==
    /\ pc = "returned"
    /\ pc' = "idle"
    /\ chapter' = None
    /\ links' = <<>>
    /\ tmp' = "none"
    /\ a_rs' = None
    /\ index_html' = None
    /\ urls' = <<>>
    /\ output' = <<>>
    /\ n' = 0
    /\ returned' = None
    /\ rustdoc_runs' = 0
    /\ UNCHANGED <<SPEC_RELATIVE, stderr>>

Next ==
    \/ \E content \in Contents, path \in Paths : std_links_call(content, path)
    \/ collect_captures
    \/ collect_sort_dedup
    \/ collect_retain
    \/ std_links_is_empty
    \/ TempDir_with_prefix
    \/ \E success \in BOOLEAN, page \in {None} \cup {Some(p) : p \in Pages} :
          run_rustdoc(success, page)
    \/ extract_urls
    \/ replace_links
    \/ append_definition
    \/ std_links_return
    \/ next_chapter

Spec == Init /\ [][Next]_vars

-----------------------------------------------------------------------------
(* Properties *)

\* x is the end of s
is_suffix(x, s) == Len(x) <= Len(s) /\ SubSeq(s, Len(s) - Len(x) + 1, Len(s)) = x

\* x occurs in s
contains(s, x) == \E i \in 1..(Len(s) - Len(x) + 1) : lit_at(s, i, x)

\* how many newlines s holds
newlines(s) == Cardinality({j \in DOMAIN s : s[j] = "\n"})

\* the last m lines of a text whose lines each end with a newline
RECURSIVE last_lines(_, _)
last_lines(text, m) ==
    IF m = 0 THEN <<>>
    ELSE LET body  == SubSeq(text, 1, Len(text) - 1)
             start == Max({j \in DOMAIN body : body[j] = "\n"} \cup {0}) + 1
         IN  last_lines(SubSeq(text, 1, start - 1), m - 1)
               \o <<SubSeq(body, start, Len(body))>>

\* the label a reference goes by: [target] with a target, else the shorthand
canonical_label(l) ==
    IF l.dest = None THEN l.link ELSE <<"[">> \o l.dest[1] \o <<"]">>

\* d times ".." joined by "/"
parents(d) == [k \in 1..(3 * d - 1) |-> IF k % 3 = 0 THEN "/" ELSE "."]

\* the run has left collect_markdown_links
collected == pc \notin {"idle", "captures", "sort", "retain"}

\* std_links has returned the rewritten content of a chapter with links
rewritten == pc = "returned" /\ links # <<>>

\* "Use [`Option`][std::option::Option] for this."
ExampleRewritten ==
    <<"U", "s", "e", " ", "[", BACKTICK, "O", "p", "t", "i", "o", "n", BACKTICK, "]", "[", "s", "t", "d",
      ":", ":", "o", "p", "t", "i", "o", "n", ":", ":", "O", "p", "t", "i", "o", "n", "]", " ",
      "f", "o", "r", " ", "t", "h", "i", "s", ".">>

\* "[std::option::Option]: ../stable/std/option/enum.Option.html"
ExampleDefLineClaimed ==
    <<"[", "s", "t", "d", ":", ":", "o", "p", "t", "i", "o", "n", ":", ":", "O", "p", "t", "i",
      "o", "n", "]", ":", " ", ".", ".", "/", "s", "t", "a", "b", "l", "e", "/", "s", "t", "d",
      "/", "o", "p", "t", "i", "o", "n", "/", "e", "n", "u", "m", ".", "O", "p", "t", "i", "o",
      "n", ".", "h", "t", "m", "l">>

\* "[std::option::Option]: ../std/option/enum.Option.html"
ExampleDefLine ==
    <<"[", "s", "t", "d", ":", ":", "o", "p", "t", "i", "o", "n", ":", ":", "O", "p", "t", "i",
      "o", "n", "]", ":", " ", ".", ".", "/", "s", "t", "d", "/", "o", "p", "t", "i", "o", "n",
      "/", "e", "n", "u", "m", ".", "O", "p", "t", "i", "o", "n", ".", "h", "t", "m", "l">>

\* the example of C1: the chapter, its depth, the toggle and rustdoc's one URL
Example ==
    /\ pc = "returned"
    /\ chapter = Some(Chapter(ExampleLine, path_of(1)))
    /\ SPEC_RELATIVE # Some(<<"0">>)
    /\ index_html = Some(<<StableOptionUrl>>)

\* line is the last line of s
trailing_line(s, line) ==
    is_suffix(<<"\n">> \o line \o <<"\n">>, s) \/ is_suffix(<<"\n">> \o line, s)

\* C1 as stated: the example's output holds the rewritten line and ends with
\* the line "[std::option::Option]: ../stable/std/option/enum.Option.html"
C1_ExampleAsStated ==
    Example => /\ contains(returned[1], ExampleRewritten)
               /\ trailing_line(returned[1], ExampleDefLineClaimed)

\* C1 amended: the example's output is the rewritten line followed by the one
\* line "[std::option::Option]: ../std/option/enum.Option.html": the channel
\* "stable" is stripped with the site
C1_Example ==
    Example => returned = Some(ExampleRewritten \o <<"\n">> \o ExampleDefLine \o <<"\n">>)

C1_Witness == Example

\* C2 as stated: no link kept by the collection, the links that are handed to
\* rustdoc and get an appended definition, has a canonical label ([target]
\* with a target, else the shorthand) that the content already defines
C2_AuthorPriority ==
    collected =>
        \A k \in DOMAIN links :
            canonical_label(links[k]) \notin existing_labels(chapter[1].content)

\* C3: with no eligible link the content is returned exactly as it came, no
\* scratch directory is made and rustdoc is not run
C3_IdentityLaw ==
    (collected /\ links = <<>>) =>
        /\ pc \in {"collected", "returned"}
        /\ tmp = "none"
        /\ a_rs = None
        /\ rustdoc_runs = 0
        /\ output = <<>>
        /\ pc = "returned" => returned = Some(chapter[1].content)

\* a chapter whose only reference is one the author defined has been returned
C3_Witness ==
    /\ pc = "returned"
    /\ links = <<>>
    /\ chapter[1].content = FmtShorthand \o AuthorTail

\* the line C4 expects for the i-th link
expected_definition(i) ==
    canonical_label(links[i]) \o <<":", " ">>
        \o relative_url(urls[i], chapter[1], SPEC_RELATIVE).url

\* the bullet C4 expects for the i-th link
expected_bullet(i) ==
    <<"/", "/", "!", " ", "-", " ">> \o links[i].link
        \o (IF links[i].dest = None THEN <<>> ELSE <<"(">> \o links[i].dest[1] \o <<")">>)

\* the part of a.rs between its header and its trailer
bullets(src) == SubSeq(src, Len(SrcHeader) + 1, Len(src) - Len(SrcTrailer))

\* C4: after a rewrite the links are in strictly increasing canonical order,
\* whatever their order in the text; the i-th of the last lines of the output
\* defines the label of the i-th link as the (relativized) i-th URL; and the
\* i-th bullet of a.rs is the i-th link
C4_PositionalZip ==
    rewritten =>
        /\ \A i, j \in DOMAIN links : i < j => cmp_link(links[i], links[j]) < 0
        /\ Len(urls) = Len(links)
        /\ last_lines(returned[1], Len(links)) = [i \in DOMAIN links |-> expected_definition(i)]
        /\ last_lines(bullets(a_rs[1]), Len(links)) = [i \in DOMAIN links |-> expected_bullet(i)]

\* two links whose order in the text is not the canonical one have been defined
C4_Witness ==
    /\ rewritten
    /\ chapter[1].content = FmtShorthand \o ExampleLine
    /\ Len(links) = 2

\* the distinct references among caps that have no definition among labels
eligible_of(caps, labels) ==
    {l \in {capture_to_link(caps[k]) : k \in DOMAIN caps} : retain_label(l) \notin labels}

\* the distinct references of the content that have no definition
eligible(content) ==
    eligible_of(STD_LINK_RE_captures_iter(content, 1), existing_labels(content))

\* the output has one more line for each of refs (and the newline before
\* them), and each of refs is one link
each_once(refs) ==
    /\ newlines(returned[1]) - newlines(chapter[1].content) - 1 = Cardinality(refs)
    /\ \A l \in refs : Cardinality({k \in DOMAIN links : links[k] = l}) = 1

\* C5: after a rewrite the number of appended definition lines is the number
\* of distinct eligible references, and each of them is exactly one link
C5_Deduplication == rewritten => each_once(eligible(chapter[1].content))

\* a chapter that holds the same shorthand twice has been rewritten
C5_Witness ==
    /\ rewritten
    /\ chapter[1].content = FmtShorthand \o FmtShorthand

\* 1.N.M, N and M of any number of digits
is_version(c) ==
    \E d \in 4..(Len(c) - 1) :
        /\ c[1] = "1" /\ c[2] = "." /\ c[d] = "."
        /\ \A k \in 3..(d - 1) : c[k] \in DIGIT
        /\ \A k \in (d + 1)..Len(c) : c[k] \in DIGIT

\* where the channel of url ends: the first "/" after the site
channel_end(url) == first_at(url, Len(DocSite) + 1, <<"/">>)

\* url is https://doc.rust-lang.org/<channel>/path
has_channel(url) ==
    /\ lit_at(url, 1, DocSite)
    /\ channel_end(url) <= Len(url)
    /\ LET channel == SubSeq(url, Len(DocSite) + 1, channel_end(url) - 1)
       IN  channel \in {CHANNELS[k] : k \in DOMAIN CHANNELS} \/ is_version(channel)

\* C6 as stated: with relativization on, the definition written for a URL
\* https://doc.rust-lang.org/<channel>/path of a chapter at depth d ends with
\* d times ".." joined by "/", followed by "/path"
C6_Relativization ==
    (/\ pc \in {"append", "returned"}
     /\ n >= 1
     /\ SPEC_RELATIVE # Some(<<"0">>)
     /\ has_channel(urls[n]))
    => is_suffix(<<":", " ">> \o parents(Len(chapter[1].path))
                   \o SubSeq(urls[n], channel_end(urls[n]), Len(urls[n])) \o <<"\n">>,
                 output)

\* C7 as stated: when the processing of a chapter has ended, by a return, an
\* exit or a panic, the scratch directory does not exist
C7_ScratchRemoved ==
    pc \in {"returned", "exited", "panicked"} => tmp # "exists"

\* the URLs of the generated page
page_urls == STD_LINK_EXTRACT_RE_captures_iter(index_html[1])

\* C8: once the page is read, a count of URLs other than the count of links
\* has ended the process with an error that names both counts and the
\* chapter; nothing is returned and nothing has been written to output
C8_MismatchDetection ==
    (index_html # None /\ pc # "extract" /\ Len(page_urls) # Len(links)) =>
        /\ pc = "exited"
        /\ returned = None
        /\ output = <<>>
        /\ stderr = <<[error |-> "expected rustdoc to generate links",
                       expected |-> Len(links), found |-> Len(page_urls),
                       chapter |-> chapter[1].name,
                       source_path |-> chapter[1].source_path]>>

\* the process has exited on a page with more URLs than links
C8_Witness ==
    /\ pc = "exited"
    /\ index_html # None
    /\ Len(urls) > Len(links)

\* C9: a diagnostic on stderr means the process has exited without returning
\* content; an exited process stays exited with the chapter it stopped at;
\* and rustdoc runs at most once for a chapter
C9_FatalAborts ==
    [][/\ stderr' # <<>> => (pc' = "exited" /\ returned' = None)
       /\ pc = "exited" => (pc' = "exited" /\ chapter' = chapter)
       /\ rustdoc_runs' <= 1]_vars

\* the process has exited because rustdoc failed
C9_Witness ==
    /\ pc = "exited"
    /\ stderr # <<>>
    /\ stderr[1].error = "failed to extract std links"
    /\ rustdoc_runs = 1

\* the targets of the disambiguated references of the content, which the
\* rewriting turns into labels
rewritten_targets(content) ==
    LET caps == STD_LINK_RE_captures_iter(content, 1)
    IN  {caps[k].g2[1] : k \in {j \in DOMAIN caps : caps[j].g2 # None}}

\* C10 as stated: after a rewrite every label [target] that the rewriting put
\* in place of (target) has a definition in the output
C10_NoDanglingLabel ==
    rewritten =>
        \A target \in rewritten_targets(chapter[1].content) :
            (<<"[">> \o target \o <<"]">>) \in existing_labels(returned[1])

====
